---- MODULE Spec2Model ----
(***************************************************************************)
(* Model of scripts/万智牌官方小故事爬虫/wotc_story_scraper.py: the retrying *)
(* page fetch (fetch_html), the image cache (AssetManager.ensure_download)  *)
(* and the per-article pipeline (StoryScraper.scrape_article / run).        *)
(*                                                                         *)
(* Text is modelled as sequences of one-character strings, so that two     *)
(* file names are equal in the model exactly when the strings the code     *)
(* builds are equal.                                                       *)
(***************************************************************************)
EXTENDS Integers, Sequences, FiniteSets, TLC

VARIABLES
    HAVE_TRAF,      \* module flag: trafilatura was importable (line 40-46)
    limit,          \* run(limit) as a set: {} is None, {n} is n
    pc,             \* position of the single thread of control
    articleIdx,     \* idx of run's loop over TARGET_ARTICLES (1-based)
    all_results,    \* run: all_results
    results,        \* scrape_article: results
    language_plan,  \* scrape_article: language_plan
    planIdx,        \* position of the loop over language_plan
    fetch,          \* frame of the fetch_html call in progress / last returned
    cur,            \* locals of the language_plan loop body
    dl,             \* frame of the ensure_download call in progress / last returned
    cache,          \* AssetManager.cache, as a function on <<slug, url>>
    files,          \* asset directory: path -> content
    docs,           \* output directory: <<slug, lang>> -> written document
    streamCalls,    \* history: client.stream calls so far, each <<slug, url>>
    env,            \* what the site does in this run: the failing answers, img
                    \* elements and empty extractions it has left to give, and
                    \* the kinds of failing answer and of link list it gives
    call,           \* a call of one of the pure functions on its own: its
                    \* arguments and, once it returned, its result
    summary         \* main: the lines of the summary printed after run

vars == <<HAVE_TRAF, limit, pc, articleIdx, all_results, results, language_plan,
          planIdx, fetch, cur, dl, cache, files, docs, streamCalls, env, call,
          summary>>

(***************************************************************************)
(* Bounds of the model.                                                    *)
(***************************************************************************)
\* largest max_retries handed to fetch_html when it is checked on its own
MaxRetriesParam == 4
\* failing transport answers (pages and images together) in one pipeline run
MaxFaults == 3
\* articles of TARGET_ARTICLES the run is given
NumArticles == 2
\* img elements of one page
MaxImages == 2
\* img elements of all the pages served in one pipeline run
MaxImagesServed == 2
\* pages of one pipeline run for which an extraction library gives nothing
MaxEmpty == 1
\* transfers started when ensure_download is checked on its own
MaxStreams == 2

(***************************************************************************)
(* Program constants.                                                      *)
(***************************************************************************)
\* fetch_html's default max_retries, the value scrape_article always uses
DefaultMaxRetries == 3

(***************************************************************************)
(* Text helpers.                                                           *)
(***************************************************************************)
Unsafe == {"\\", "/", ":", "*", "?", "\"", "<", ">", "|"}
Blank == {" ", "\t", "\n"}

RECURSIVE DropWhile(_, _)
DropWhile(s, set) ==
    IF s # <<>> /\ Head(s) \in set THEN DropWhile(Tail(s), set) ELSE s

\* re.sub(r"[\\/:*?\"<>|]+", "_", name): every run of unsafe characters
\* becomes one underscore
RECURSIVE ReplaceUnsafeRuns(_)
ReplaceUnsafeRuns(s) ==
    IF s = <<>> THEN <<>>
    ELSE IF Head(s) \in Unsafe
         THEN <<"_">> \o ReplaceUnsafeRuns(DropWhile(s, Unsafe))
         ELSE <<Head(s)>> \o ReplaceUnsafeRuns(Tail(s))

Reverse(s) == [i \in 1..Len(s) |-> s[Len(s) + 1 - i]]

\* str.strip()
Strip(s) == Reverse(DropWhile(Reverse(DropWhile(s, Blank)), Blank))

sanitize_filename(name, fallback) ==
    LET cleaned == Strip(ReplaceUnsafeRuns(name))
    IN  IF cleaned # <<>> THEN cleaned ELSE fallback

Digit(d) == <<"0", "1", "2", "3", "4", "5", "6", "7", "8", "9">>[d + 1]

RECURSIVE Decimal(_)
Decimal(n) == IF n < 10 THEN <<Digit(n)>> ELSE Decimal(n \div 10) \o <<Digit(n % 10)>>

\* f"{index:02d}"
TwoDigits(n) == IF n < 10 THEN <<"0">> \o Decimal(n) ELSE Decimal(n)

(***************************************************************************)
(* URLs and pages.                                                         *)
(***************************************************************************)
Host == "magic.wizards.com"
NoUrl == [host |-> "", path |-> <<>>]

\* the article list, cut to the first articles of the run
TARGET_ARTICLES ==
    [i \in 1..NumArticles |->
        [host |-> Host, path |-> <<<<"e", "n">>, <<"s">> \o Decimal(i)>>]]

\* Path(urlparse(source_url).path).name, sanitized
derive_slug(source_url) ==
    LET p == source_url.path
    IN  sanitize_filename(IF p = <<>> THEN <<>> ELSE p[Len(p)], <<"u","n","t","i","t","l","e","d">>)

\* urljoin(base_url, href) for an absolute href and for a host-relative one
urljoin(base_url, href) ==
    [host |-> IF href.host # "" THEN href.host ELSE base_url.host, path |-> href.path]

EmptyText ==
    [empty |-> TRUE, links |-> <<>>, images |-> <<>>, title |-> "", author |-> "", published |-> ""]

(***************************************************************************)
(* fetch_html (lines 137-161).                                             *)
(***************************************************************************)
NoFetch ==
    [caller |-> "none", url |-> NoUrl, language_code |-> "", max_retries |-> 0,
     attempt |-> 0, warnings |-> <<>>, html |-> EmptyText, last |-> "none",
     answers |-> <<>>, sleeps |-> 0]

\* the frame of a call fetch_html(client, url, language_code, max_retries):
\* its parameters and locals, where it stands (last), and two histories, the
\* answers client.get gave and the number of time.sleep calls
FetchFrame(caller, url, language_code, max_retries) ==
    [NoFetch EXCEPT !.caller = caller, !.url = url, !.language_code = language_code,
                    !.max_retries = max_retries, !.attempt = 1,
                    !.last = IF max_retries >= 1 THEN "called" ELSE "exhausted"]

\* range(1, max_retries + 1) has a first element
FetchEntryPc(max_retries) == IF max_retries >= 1 THEN "fetch_get" ELSE "fetch_ret"

HttpErrors == {"ReadTimeout", "ConnectError", "TooManyRedirects"}

Response(status, text) == [kind |-> "response", status |-> status, text |-> text, exc |-> ""]
Raised(exc) == [kind |-> "raise", status |-> 0, text |-> EmptyText, exc |-> exc]

\* a variant of IsSuccess that forgets the test of the body
IsSuccess_StatusOnly(answer) == answer.status = 200

\* line 151: response.status_code == 200 and response.text
IsSuccess(answer) == answer.status = 200 /\ ~answer.text.empty

\* lines 153-155 and 157-159: the warning of a failed attempt
HttpWarning(status, url, attempt, max_retries) ==
    [kind |-> "http", status |-> status, exc |-> "", url |-> url,
     attempt |-> attempt, max_retries |-> max_retries, lang |-> ""]
ExcWarning(exc, attempt, max_retries) ==
    [kind |-> "exc", status |-> 0, exc |-> exc, url |-> NoUrl,
     attempt |-> attempt, max_retries |-> max_retries, lang |-> ""]

\* line 156: except httpx.HTTPError
Caught(exc) == exc \in HttpErrors

\* one pass of the loop body up to the sleep: client.get and what follows it
FetchStep(f, answer) ==
    LET f1 == [f EXCEPT !.answers = Append(@, answer)]
    IN  IF answer.kind = "raise"
        THEN IF Caught(answer.exc)
             THEN [f1 EXCEPT !.warnings =
                                 Append(@, ExcWarning(answer.exc, f.attempt, f.max_retries)),
                             !.last = "failed"]
             ELSE [f1 EXCEPT !.last = "raised"]
        ELSE IF IsSuccess(answer)
        THEN [f1 EXCEPT !.html = answer.text, !.last = "returned"]
        ELSE [f1 EXCEPT !.warnings =
                            Append(@, HttpWarning(answer.status, f.url, f.attempt, f.max_retries)),
                        !.last = "failed"]

\* a variant of LoopContinues that retries for as long as attempts fail
LoopContinues_Unbounded(attempt, max_retries) == TRUE

\* a variant of LoopContinues that runs the loop once more
LoopContinues_OneMore(attempt, max_retries) == attempt <= max_retries

\* line 148: the loop goes on to another attempt
LoopContinues(attempt, max_retries) == attempt < max_retries

\* a variant of SleepStep that sleeps between attempts only
SleepStep_BetweenOnly(f) ==
    IF LoopContinues(f.attempt, f.max_retries)
    THEN [f EXCEPT !.sleeps = @ + 1, !.attempt = @ + 1, !.last = "retry"]
    ELSE [f EXCEPT !.last = "exhausted"]

\* line 160 and the loop's next iteration, or line 161
SleepStep(f) ==
    LET f1 == [f EXCEPT !.sleeps = @ + 1]
    IN  IF LoopContinues(f.attempt, f.max_retries)
        THEN [f1 EXCEPT !.attempt = @ + 1, !.last = "retry"]
        ELSE [f1 EXCEPT !.last = "exhausted"]

(***************************************************************************)
(* extract_language_variants (lines 216-229) and the Chinese lookup of     *)
(* scrape_article (line 377).                                              *)
(***************************************************************************)
UpperLetters == <<"A","B","C","D","E","F","G","H","I","J","K","L","M",
                  "N","O","P","Q","R","S","T","U","V","W","X","Y","Z">>
LowerLetters == <<"a","b","c","d","e","f","g","h","i","j","k","l","m",
                  "n","o","p","q","r","s","t","u","v","w","x","y","z">>

LowerChar(c) ==
    IF \E i \in 1..26 : UpperLetters[i] = c
    THEN LowerLetters[CHOOSE i \in 1..26 : UpperLetters[i] = c]
    ELSE c

\* str.lower()
Lower(s) == [i \in 1..Len(s) |-> LowerChar(s[i])]

\* the href attribute is empty
EmptyHref(href) == href.host = "" /\ href.path = <<>>

\* the dict built by the loop of lines 223-228, as a function on its keys:
\* a later link of the same lower-cased tag overwrites an earlier one
RECURSIVE extract_language_variants(_, _)
extract_language_variants(links, base_url) ==
    IF links = <<>> THEN <<>>
    ELSE LET n == Len(links)
             link == links[n]
             before == extract_language_variants(SubSeq(links, 1, n - 1), base_url)
             lang == Strip(link.hreflang)
         IN  IF lang = <<>> \/ EmptyHref(link.href)
             THEN before
             ELSE (Lower(lang) :> urljoin(base_url, link.href)) @@ before

\* the keys scrape_article looks up, in its order
ZhKeys == << <<"z","h">>, <<"z","h","-","c","n">>, <<"z","h","-","h","a","n","s">> >>

\* variants.get("zh") or variants.get("zh-cn") or variants.get("zh-hans");
\* NoUrl stands for None
RECURSIVE FirstPresent(_, _)
FirstPresent(variants, keys) ==
    IF keys = <<>> THEN NoUrl
    ELSE IF Head(keys) \in DOMAIN variants /\ variants[Head(keys)] # NoUrl
         THEN variants[Head(keys)]
         ELSE FirstPresent(variants, Tail(keys))

zh_url_of(variants) == FirstPresent(variants, ZhKeys)

\* lines 374-379: an entry (lang_code, lang_url, cached_tree, cached_html,
\* warnings); `cached` tells whether cached_html is not None
PlanEntry(lang_code, lang_url, cached, cached_html, warnings) ==
    [lang_code |-> lang_code, lang_url |-> lang_url, cached |-> cached,
     cached_html |-> cached_html, warnings |-> warnings]

LanguagePlan(url, en_html, en_warnings, zh_url) ==
    <<PlanEntry("en", url, TRUE, en_html, en_warnings)>>
    \o (IF zh_url # NoUrl
        THEN <<PlanEntry("zh-Hans", zh_url, FALSE, EmptyText, <<>>)>>
        ELSE <<>>)

(***************************************************************************)
(* AssetManager.ensure_download (lines 299-335).                           *)
(***************************************************************************)
\* Path(urlparse(remote_url).path).suffix: from the last dot of the last
\* segment, unless the dot leads or ends the name
RECURSIVE LastDot(_)
LastDot(name) ==
    IF name = <<>> THEN 0
    ELSE IF name[Len(name)] = "." THEN Len(name)
    ELSE LastDot(SubSeq(name, 1, Len(name) - 1))

UrlSuffix(remote_url) ==
    LET p == remote_url.path
        name == IF p = <<>> THEN <<>> ELSE p[Len(p)]
        i == LastDot(name)
    IN  IF i > 1 /\ i < Len(name) THEN SubSeq(name, i, Len(name)) ELSE <<>>

\* line 317
ExtOf(remote_url) ==
    IF UrlSuffix(remote_url) # <<>> THEN UrlSuffix(remote_url) ELSE <<".", "j", "p", "g">>

\* line 318
SafeAlt(alt_text, index) ==
    sanitize_filename(alt_text, <<"i","m","a","g","e","-">> \o TwoDigits(index))

\* a variant of BaseName that counts the images from 0
BaseName_FromZero(index, safe_alt, ext) == TwoDigits(index - 1) \o <<"_">> \o safe_alt \o ext

\* lines 319 and 322: the file name without and with the counter
BaseName(index, safe_alt, ext) == TwoDigits(index) \o <<"_">> \o safe_alt \o ext
SuffixedName(index, safe_alt, ext, suffix_counter) ==
    TwoDigits(index) \o <<"_">> \o safe_alt \o <<"_">> \o Decimal(suffix_counter) \o ext

AssetPath(slug, name) == [slug |-> slug, name |-> name]
NoPath == [slug |-> <<>>, name |-> <<>>]

\* lines 320-323: the while loop, entered with a candidate that exists
RECURSIVE NextFree(_, _, _, _, _, _)
NextFree(disk, slug, index, safe_alt, ext, suffix_counter) ==
    LET candidate == AssetPath(slug, SuffixedName(index, safe_alt, ext, suffix_counter))
    IN  IF candidate \in DOMAIN disk
        THEN NextFree(disk, slug, index, safe_alt, ext, suffix_counter + 1)
        ELSE candidate

\* a variant of Candidate without the while loop: the base name is taken as is
Candidate_NoLoop(disk, slug, remote_url, alt_text, index) ==
    AssetPath(slug, BaseName(index, SafeAlt(alt_text, index), ExtOf(remote_url)))

\* lines 319-323
Candidate(disk, slug, remote_url, alt_text, index) ==
    LET ext == ExtOf(remote_url)
        safe_alt == SafeAlt(alt_text, index)
        first == AssetPath(slug, BaseName(index, safe_alt, ext))
    IN  IF first \in DOMAIN disk
        THEN NextFree(disk, slug, index, safe_alt, ext, 1)
        ELSE first

\* what client.stream and the transfer can do (lines 326-332): "ok", or an
\* httpx.HTTPError before the file is opened ("status": raise_for_status,
\* "connect": the request itself), or one while the body is being written
StreamOutcomes == {"ok", "status", "connect", "midstream"}

AssetWarning(remote_url, outcome) ==
    [kind |-> "asset", status |-> 0, exc |-> outcome, url |-> remote_url,
     attempt |-> 0, max_retries |-> 0, lang |-> ""]
NoWarning ==
    [kind |-> "none", status |-> 0, exc |-> "", url |-> NoUrl,
     attempt |-> 0, max_retries |-> 0, lang |-> ""]

Content(by, complete) == [by |-> by, complete |-> complete]

\* line 310: the URL is in the slug's cache
CacheHit(c, slug, remote_url) == <<slug, remote_url>> \in DOMAIN c

\* line 334: what the cache is after a download that returned normally
CacheAfterDownload(c, slug, remote_url, candidate) == (<<slug, remote_url>> :> candidate) @@ c

\* line 328: the file a transfer writes to (opened "wb": created or truncated)
WriteFile(disk, candidate, content) == (candidate :> content) @@ disk

\* the whole call, for one outcome of the transport; `serial` numbers the
\* transfer whose bytes the file then holds
ensure_download(c, disk, slug, remote_url, alt_text, index, outcome, serial) ==
    IF CacheHit(c, slug, remote_url)
    THEN [hit |-> TRUE, streamed |-> FALSE, path |-> c[<<slug, remote_url>>],
          warn |-> NoWarning, candidate |-> NoPath, outcome |-> "hit",
          cache |-> c, files |-> disk]
    ELSE LET candidate == Candidate(disk, slug, remote_url, alt_text, index)
         IN  IF outcome = "ok"
             THEN [hit |-> FALSE, streamed |-> TRUE, path |-> candidate,
                   warn |-> NoWarning, candidate |-> candidate, outcome |-> outcome,
                   cache |-> CacheAfterDownload(c, slug, remote_url, candidate),
                   files |-> WriteFile(disk, candidate, Content(serial, TRUE))]
             ELSE [hit |-> FALSE, streamed |-> TRUE, path |-> NoPath,
                   warn |-> AssetWarning(remote_url, outcome), candidate |-> candidate,
                   outcome |-> outcome, cache |-> c,
                   files |-> IF outcome = "midstream"
                             THEN WriteFile(disk, candidate, Content(serial, FALSE))
                             ELSE disk]

(***************************************************************************)
(* The pieces of the language_plan loop body (lines 381-465).              *)
(***************************************************************************)
ArticleMeta(title, author, published, source_url, language) ==
    [title |-> title, author |-> author, published |-> published,
     source_url |-> source_url, language |-> language]

\* lines 394-400: the record of a variant that could not be fetched
PlaceholderMeta(lang_url, lang_code) == ArticleMeta("fetch failed", "", "", lang_url, lang_code)

\* lines 170-213, for a page whose title, author and date are present
extract_article_meta(page, language_code, source_url) ==
    ArticleMeta(IF page.title # "" THEN page.title ELSE "untitled article",
                IF page.author # "" THEN page.author ELSE "unknown author",
                page.published, source_url, language_code)

\* line 388
UnavailableWarning(lang_code, lang_url) ==
    [kind |-> "unavailable", status |-> 0, exc |-> "", url |-> lang_url,
     attempt |-> 0, max_retries |-> 0, lang |-> lang_code]

DocPath(slug, lang_code) == [slug |-> slug, lang |-> lang_code]

DownloadResult(meta, markdown_path, assets, warnings) ==
    [meta |-> meta, markdown_path |-> markdown_path, assets |-> assets, warnings |-> warnings]

\* a variant of FailedVariantResult that drops the warnings of the fetch
FailedVariantResult_NoFetchWarnings(slug, entry, warnings) ==
    DownloadResult(PlaceholderMeta(entry.lang_url, entry.lang_code),
                   DocPath(slug, entry.lang_code), <<>>,
                   <<UnavailableWarning(entry.lang_code, entry.lang_url)>>)

\* lines 388-405: the record of a variant whose page is absent; `warnings`
\* is the entry's list extended by the warnings of the fetch (line 386)
FailedVariantResult(slug, entry, warnings) ==
    DownloadResult(PlaceholderMeta(entry.lang_url, entry.lang_code),
                   DocPath(slug, entry.lang_code), <<>>,
                   Append(warnings, UnavailableWarning(entry.lang_code, entry.lang_url)))

\* lines 262-269: img elements without src are skipped
RECURSIVE collect_images(_, _)
collect_images(imgs, base_url) ==
    IF imgs = <<>> THEN <<>>
    ELSE IF EmptyHref(Head(imgs).src)
         THEN collect_images(Tail(imgs), base_url)
         ELSE <<[url |-> urljoin(base_url, Head(imgs).src), alt |-> Strip(Head(imgs).alt)]>>
              \o collect_images(Tail(imgs), base_url)

\* an image reference ![alt](src) of a text
RemoteRef(alt, url) == [alt |-> alt, local |-> FALSE, url |-> url, path |-> NoPath]
LocalRef(alt, path) == [alt |-> alt, local |-> TRUE, url |-> NoUrl, path |-> path]

\* a text, as far as the pipeline looks at it: whether the string is empty,
\* and its image references in order
Text(refs) == [empty |-> FALSE, refs |-> refs]
EmptyString == [empty |-> TRUE, refs |-> <<>>]

\* lines 278-284: the map holds the local path of a URL
rewrite_markdown_images(markdown_text, replacement_map) ==
    [markdown_text EXCEPT !.refs =
        [i \in 1..Len(@) |->
            IF ~@[i].local /\ @[i].url \in DOMAIN replacement_map
            THEN LocalRef(@[i].alt, replacement_map[@[i].url])
            ELSE @[i]]]

\* what the extraction libraries can give for a page: nothing, or a text
\* with a reference to each of the page's images
FullText(page, base_url) ==
    LET imgs == collect_images(page.images, base_url)
    IN  Text([i \in 1..Len(imgs) |-> RemoteRef(imgs[i].alt, imgs[i].url)])

\* line 236: None or "" stands for no result
TrafilaturaResults(page, base_url) == {EmptyString, FullText(page, base_url)}
\* line 252
MarkdownifyResults(page, base_url) == {EmptyString, FullText(page, base_url)}

\* line 243: `if result`
Truthy(text) == ~text.empty

\* lines 235-252: the text returned, or that the call raised (NameError: md
\* is bound only when the import of trafilatura failed, lines 44-46)
html_to_markdown(have_traf, primary, fallback) ==
    IF have_traf /\ Truthy(primary)
    THEN [raised |-> FALSE, text |-> primary]
    ELSE IF have_traf
         THEN [raised |-> TRUE, text |-> EmptyString]
         ELSE [raised |-> FALSE, text |-> fallback]

NoCur ==
    [lang_code |-> "", lang_url |-> NoUrl, page |-> EmptyText, warnings |-> <<>>,
     meta |-> PlaceholderMeta(NoUrl, ""), markdown |-> EmptyString, images |-> <<>>,
     imgIdx |-> 0, replacement_map |-> <<>>, assets |-> <<>>]

\* lines 413-421, once the page of the variant is at hand
StartVariant(entry, page, warnings) ==
    [NoCur EXCEPT !.lang_code = entry.lang_code, !.lang_url = entry.lang_url,
                  !.page = page, !.warnings = warnings]

NoDl ==
    [slug |-> <<>>, url |-> NoUrl, alt |-> <<>>, index |-> 0, hit |-> FALSE,
     streamed |-> FALSE, path |-> NoPath, candidate |-> NoPath, outcome |-> "none",
     before |-> <<>>]

\* the last ensure_download call: its arguments, what it did and returned, and
\* the asset directory as it was when the call started
DlFrame(slug, remote_url, alt_text, index, r, disk) ==
    [slug |-> slug, url |-> remote_url, alt |-> alt_text, index |-> index, hit |-> r.hit,
     streamed |-> r.streamed, path |-> r.path, candidate |-> r.candidate,
     outcome |-> r.outcome, before |-> disk]

\* a variant of AfterDownload without the two `continue` guards: whatever
\* ensure_download returned is recorded as an asset
AfterDownload_NoGuards(c, img_url, r) ==
    [c EXCEPT !.warnings = IF r.warn.kind # "none" THEN Append(@, r.warn) ELSE @,
              !.assets = Append(@, r.path),
              !.replacement_map = (img_url :> r.path) @@ @,
              !.imgIdx = @ + 1]

\* lines 431-438: what the loop body does with the answer of ensure_download
AfterDownload(c, img_url, r) ==
    IF r.warn.kind # "none"
    THEN [c EXCEPT !.warnings = Append(@, r.warn), !.imgIdx = @ + 1]
    ELSE IF r.path = NoPath
    THEN [c EXCEPT !.imgIdx = @ + 1]
    ELSE [c EXCEPT !.assets = Append(@, r.path),
                   !.replacement_map = (img_url :> r.path) @@ @,
                   !.imgIdx = @ + 1]

\* lines 443-457: the document written for a variant
Document(meta, body) == [meta |-> meta, body |-> body, run |-> 1]

(***************************************************************************)
(* The inputs: what the site serves and what the asset directory holds.    *)
(***************************************************************************)
Href(host, path) == [host |-> host, path |-> path]
NoHref == Href("", <<>>)

SrcA == Href("", << <<"a", ".", "p", "n", "g">> >>)
SrcB == Href("media.wizards.com", << <<"b", ".", "p", "n", "g">> >>)
AltX == <<"x">>

Img(src, alt) == [src |-> src, alt |-> alt]
ImgTags == {Img(SrcA, AltX), Img(SrcB, AltX)}

RECURSIVE SeqsUpTo(_, _)
SeqsUpTo(S, n) ==
    IF n = 0 THEN {<<>>}
    ELSE LET shorter == SeqsUpTo(S, n - 1)
         IN  shorter \cup {Append(q, x) : q \in shorter, x \in S}

ImageLists == SeqsUpTo(ImgTags, MaxImages)

Link(hreflang, href) == [hreflang |-> hreflang, href |-> href]
ZhHref == Href("", << <<"z", "h">>, <<"s">> >>)
CnHref == Href("", << <<"c", "n">>, <<"s">> >>)
HansHref == Href("", << <<"h", "a", "n", "s">>, <<"s">> >>)
FrHref == Href("", << <<"f", "r">>, <<"s">> >>)

LinkLists ==
    { <<Link(<<"f", "r">>, FrHref)>>,
      <<Link(<<"Z", "H", "-", "C", "N">>, CnHref)>>,
      <<Link(<<"z", "h", "-", "H", "a", "n", "s">>, HansHref), Link(<<"z", "h">>, ZhHref)>>,
      <<Link(<<"z", "h">>, NoHref), Link(<<" ", "z", "h", "-", "h", "a", "n", "s">>, HansHref)>> }

Page(links, images) ==
    [empty |-> FALSE, links |-> links, images |-> images,
     title |-> "Class Session", author |-> "", published |-> "2021-03-25"]

\* the documents a page URL can answer with: the links of a page matter
\* for the English page only (line 371)
Bodies(language_code) ==
    LET lists == {i \in ImageLists : Len(i) <= env.images}
    IN  IF language_code = "en"
        THEN {Page(l, i) : l \in env.links, i \in lists}
        ELSE {Page(<<>>, i) : i \in lists}

GoodAnswers(language_code) == {Response(200, b) : b \in Bodies(language_code)}
\* the failing answers: a status other than 200, an empty body, an httpx.HTTPError
AllBadAnswers ==
    {Response(404, EmptyText), Response(200, EmptyText)} \cup {Raised(e) : e \in HttpErrors}
BadAnswers == env.bad

Environment(faults, images, empties, bad, stream, links) ==
    [faults |-> faults, images |-> images, empties |-> empties, bad |-> bad,
     stream |-> stream, links |-> links]

\* files left in the asset directory by earlier runs
PriorFiles ==
    LET slug == derive_slug(TARGET_ARTICLES[1])
        ext == <<".", "p", "n", "g">>
    IN  {AssetPath(slug, BaseName(1, AltX, ext)), AssetPath(slug, SuffixedName(1, AltX, ext, 1))}

Disk(paths) == [p \in paths |-> Content(0, TRUE)]

\* no pure function is being checked on its own
NoCall == [fn |-> "none"]

(***************************************************************************)
(* The actions.                                                            *)
(***************************************************************************)
Slug == derive_slug(TARGET_ARTICLES[articleIdx])

\* run, lines 477-481: the next article, or the end of the loop
RunLoop ==
    /\ pc = "run_loop"
    /\ IF articleIdx > NumArticles \/ (\E n \in limit : articleIdx > n)
       THEN /\ pc' = "done"
            /\ UNCHANGED <<results, fetch>>
       ELSE /\ results' = <<>>
            /\ fetch' = FetchFrame("en", TARGET_ARTICLES[articleIdx], "en", DefaultMaxRetries)
            /\ pc' = FetchEntryPc(DefaultMaxRetries)
    /\ UNCHANGED <<HAVE_TRAF, limit, articleIdx, all_results, language_plan, planIdx,
                   cur, dl, cache, files, docs, streamCalls, env>>
    /\ UNCHANGED <<call, summary>>

\* fetch_html, lines 149-159: one attempt
FetchAttempt ==
    /\ pc = "fetch_get"
    /\ \E answer \in GoodAnswers(fetch.language_code) \cup BadAnswers :
          /\ answer \in BadAnswers => env.faults > 0
          /\ fetch' = FetchStep(fetch, answer)
          /\ env' = IF answer \in BadAnswers
                    THEN [env EXCEPT !.faults = @ - 1]
                    ELSE [env EXCEPT !.images = @ - Len(answer.text.images)]
    /\ pc' = CASE fetch'.last = "returned" -> "fetch_ret"
                [] fetch'.last = "raised" -> "crashed"
                [] OTHER -> "fetch_sleep"
    /\ UNCHANGED <<HAVE_TRAF, limit, articleIdx, all_results, results, language_plan,
                   planIdx, cur, dl, cache, files, docs, streamCalls>>
    /\ UNCHANGED <<call, summary>>

\* fetch_html, lines 160-161: the sleep after a failed attempt
FetchSleep ==
    /\ pc = "fetch_sleep"
    /\ fetch' = SleepStep(fetch)
    /\ pc' = IF fetch'.last = "retry" THEN "fetch_get" ELSE "fetch_ret"
    /\ UNCHANGED <<HAVE_TRAF, limit, articleIdx, all_results, results, language_plan,
                   planIdx, cur, dl, cache, files, docs, streamCalls, env>>
    /\ UNCHANGED <<call, summary>>

\* the fetch returned a document
Fetched(f) == f.last = "returned"

\* run, lines 482-483, after scrape_article returned `rs`: the locals of
\* scrape_article are gone
BackInRun(rs) ==
    /\ all_results' = all_results \o rs
    /\ articleIdx' = articleIdx + 1
    /\ pc' = "run_loop"
    /\ results' = <<>>
    /\ language_plan' = <<>>
    /\ planIdx' = 0
    /\ fetch' = NoFetch
    /\ cur' = NoCur
    /\ dl' = NoDl

\* a variant of EnFailureResults that reports the failed English page the way
\* a failed variant page is reported
EnFailureResults_Placeholder ==
    <<DownloadResult(PlaceholderMeta(fetch.url, fetch.language_code),
                     DocPath(derive_slug(fetch.url), fetch.language_code), <<>>,
                     fetch.warnings)>>

\* scrape_article, line 367: what is returned when the English page is absent
EnFailureResults == <<>>

\* scrape_article, lines 365-379
EnFetched ==
    /\ pc = "fetch_ret" /\ fetch.caller = "en"
    /\ IF ~Fetched(fetch)
       THEN BackInRun(EnFailureResults)
       ELSE /\ \E variants \in {extract_language_variants(fetch.html.links, fetch.url)} :
                  \E zh_url \in {zh_url_of(variants)} :
                     language_plan' = LanguagePlan(fetch.url, fetch.html, fetch.warnings, zh_url)
            /\ planIdx' = 1
            /\ pc' = "variant"
            /\ UNCHANGED <<all_results, articleIdx, results, fetch, cur, dl>>
    /\ UNCHANGED <<HAVE_TRAF, limit, cache, files, docs, streamCalls, env>>
    /\ UNCHANGED <<call, summary>>

\* scrape_article, lines 381-385 and 467: the next entry of the plan
VariantNext ==
    /\ pc = "variant"
    /\ IF planIdx > Len(language_plan)
       THEN BackInRun(results)
       ELSE LET entry == language_plan[planIdx]
            IN  /\ IF entry.cached
                   THEN /\ cur' = StartVariant(entry, entry.cached_html, entry.warnings)
                        /\ pc' = "extract"
                        /\ UNCHANGED fetch
                   ELSE /\ fetch' = FetchFrame("zh", entry.lang_url, entry.lang_code,
                                               DefaultMaxRetries)
                        /\ pc' = FetchEntryPc(DefaultMaxRetries)
                        /\ cur' = NoCur
                /\ UNCHANGED <<all_results, articleIdx, results, language_plan, planIdx, dl>>
    /\ UNCHANGED <<HAVE_TRAF, limit, cache, files, docs, streamCalls, env>>
    /\ UNCHANGED <<call, summary>>

\* scrape_article, lines 386-408
ZhFetched ==
    /\ pc = "fetch_ret" /\ fetch.caller = "zh"
    /\ LET entry == language_plan[planIdx]
           warnings == entry.warnings \o fetch.warnings
       IN  IF ~Fetched(fetch)
           THEN /\ results' = Append(results, FailedVariantResult(Slug, entry, warnings))
                /\ planIdx' = planIdx + 1
                /\ pc' = "variant"
                /\ UNCHANGED cur
           ELSE /\ cur' = StartVariant(entry, fetch.html, warnings)
                /\ pc' = "extract"
                /\ UNCHANGED <<results, planIdx>>
    /\ UNCHANGED <<HAVE_TRAF, limit, articleIdx, all_results, language_plan, fetch, dl,
                   cache, files, docs, streamCalls, env>>
    /\ UNCHANGED <<call, summary>>

\* scrape_article, lines 413-421
Extract ==
    /\ pc = "extract"
    /\ \E primary \in TrafilaturaResults(cur.page, cur.lang_url),
          fallback \in MarkdownifyResults(cur.page, cur.lang_url) :
          LET md == html_to_markdown(HAVE_TRAF, primary, fallback)
              nothing == md.raised \/ md.text.empty
          IN  /\ nothing => env.empties > 0
              /\ env' = IF nothing THEN [env EXCEPT !.empties = @ - 1] ELSE env
              /\ IF md.raised
                 THEN /\ pc' = "crashed"
                      /\ UNCHANGED cur
                 ELSE /\ cur' = [cur EXCEPT
                                !.meta = extract_article_meta(cur.page, cur.lang_code, cur.lang_url),
                                !.markdown = md.text,
                                !.images = collect_images(cur.page.images, cur.lang_url),
                                !.imgIdx = 1]
                      /\ pc' = "images"
    /\ UNCHANGED <<HAVE_TRAF, limit, articleIdx, all_results, results, language_plan,
                   planIdx, fetch, dl, cache, files, docs, streamCalls>>
    /\ UNCHANGED <<call, summary>>

\* scrape_article, lines 423-438: one image; the slug and the answer of
\* ensure_download are values computed once
ImageStep ==
    /\ pc = "images"
    /\ cur.imgIdx <= Len(cur.images)
    /\ LET img == cur.images[cur.imgIdx]
       IN  \E outcome \in env.stream :
              \E slug \in {Slug} :
              \E r \in {ensure_download(cache, files, slug, img.url, img.alt, cur.imgIdx,
                                        outcome, Len(streamCalls) + 1)} :
                  /\ r.hit => outcome = "ok"
                  /\ (r.streamed /\ outcome # "ok") => env.faults > 0
                  /\ env' = IF r.streamed /\ outcome # "ok"
                            THEN [env EXCEPT !.faults = @ - 1] ELSE env
                  /\ cache' = r.cache
                  /\ files' = r.files
                  /\ streamCalls' = IF r.streamed
                                    THEN Append(streamCalls, <<slug, img.url>>)
                                    ELSE streamCalls
                  /\ dl' = DlFrame(slug, img.url, img.alt, cur.imgIdx, r, files)
                  /\ cur' = AfterDownload(cur, img.url, r)
    /\ UNCHANGED <<HAVE_TRAF, limit, pc, articleIdx, all_results, results, language_plan,
                   planIdx, fetch, docs>>
    /\ UNCHANGED <<call, summary>>

\* scrape_article, lines 440-465
WriteVariant ==
    /\ pc = "images"
    /\ cur.imgIdx > Len(cur.images)
    /\ \E body \in {rewrite_markdown_images(cur.markdown, cur.replacement_map)},
          markdown_path \in {DocPath(Slug, cur.lang_code)} :
           /\ docs' = (markdown_path :> Document(cur.meta, body)) @@ docs
           /\ results' = Append(results,
                                DownloadResult(cur.meta, markdown_path, cur.assets, cur.warnings))
    /\ planIdx' = planIdx + 1
    /\ pc' = "variant"
    /\ UNCHANGED <<HAVE_TRAF, limit, articleIdx, all_results, language_plan, fetch, cur,
                   dl, cache, files, streamCalls, env>>
    /\ UNCHANGED <<call, summary>>

Next ==
    \/ RunLoop
    \/ FetchAttempt
    \/ FetchSleep
    \/ EnFetched
    \/ VariantNext
    \/ ZhFetched
    \/ Extract
    \/ ImageStep
    \/ WriteVariant

\* the site of a run over the first article alone (run(limit=1), as
\* 单页测试.py calls it), and the plainer site of a run over the whole list:
\* it fails no more often than exhausts one fetch, and serves one image
OneArticleSite ==
    Environment(MaxFaults, MaxImagesServed, MaxEmpty, {Response(404, EmptyText)},
                {"ok", "status", "midstream"}, LinkLists)
WholeRunSite ==
    Environment(DefaultMaxRetries, 1, 1, {Response(404, EmptyText)}, {"ok", "status"},
                {l \in LinkLists : Len(l) = 1})

\* the state StoryScraper.run starts in
Init ==
    /\ HAVE_TRAF \in BOOLEAN
    /\ limit \in {{}, {1}}
    /\ pc = "run_loop"
    /\ articleIdx = 1
    /\ all_results = <<>>
    /\ results = <<>>
    /\ language_plan = <<>>
    /\ planIdx = 0
    /\ fetch = NoFetch
    /\ cur = NoCur
    /\ dl = NoDl
    /\ cache = <<>>
    /\ files = Disk({})
    /\ docs = <<>>
    /\ streamCalls = <<>>
    /\ env = IF limit = {1} THEN OneArticleSite ELSE WholeRunSite
    /\ call = NoCall
    /\ summary = <<>>

Spec == Init /\ [][Next]_vars

(***************************************************************************)
(* fetch_html on its own: any max_retries up to MaxRetriesParam, against a *)
(* transport that gives every kind of failing answer.                      *)
(***************************************************************************)
FetchSite ==
    Environment(MaxRetriesParam, 1, 0, AllBadAnswers, {}, {l \in LinkLists : Len(l) = 1})

InitFetch ==
    /\ HAVE_TRAF = TRUE
    /\ limit = {}
    /\ articleIdx = 1
    /\ all_results = <<>>
    /\ results = <<>>
    /\ language_plan = <<>>
    /\ planIdx = 0
    /\ cur = NoCur
    /\ dl = NoDl
    /\ cache = <<>>
    /\ files = Disk({})
    /\ docs = <<>>
    /\ streamCalls = <<>>
    /\ env = FetchSite
    /\ call = NoCall
    /\ summary = <<>>
    /\ \E max_retries \in 0..MaxRetriesParam, language_code \in {"en", "zh-Hans"} :
          /\ fetch = FetchFrame("caller", TARGET_ARTICLES[1], language_code, max_retries)
          /\ pc = FetchEntryPc(max_retries)

NextFetch ==
    \/ FetchAttempt
    \/ FetchSleep

SpecFetch == InitFetch /\ [][NextFetch]_vars

(***************************************************************************)
(* AssetManager.ensure_download on its own: any sequence of calls on one   *)
(* AssetManager, over an asset directory earlier runs may have filled.     *)
(***************************************************************************)
AssetUrls == {urljoin(TARGET_ARTICLES[1], SrcA), urljoin(TARGET_ARTICLES[1], SrcB)}
AssetAlts == {AltX, <<"x", "/", "1">>}
AssetIndexes == {1, 2}
AssetSlugs == {derive_slug(TARGET_ARTICLES[1])}

AssetsSite == Environment(MaxStreams, 0, 0, {}, StreamOutcomes \ {"connect"}, {})

InitAssets ==
    /\ HAVE_TRAF = TRUE
    /\ limit = {}
    /\ pc = "assets"
    /\ articleIdx = 1
    /\ all_results = <<>>
    /\ results = <<>>
    /\ language_plan = <<>>
    /\ planIdx = 0
    /\ fetch = NoFetch
    /\ cur = NoCur
    /\ dl = NoDl
    /\ cache = <<>>
    /\ files \in {Disk({}), Disk(PriorFiles)}
    /\ docs = <<>>
    /\ streamCalls = <<>>
    /\ env = AssetsSite
    /\ call = NoCall
    /\ summary = <<>>

\* one call asset_manager.ensure_download(client, slug, remote_url, alt_text, index)
AssetCall ==
    /\ pc = "assets"
    /\ \E slug \in AssetSlugs, remote_url \in AssetUrls, alt_text \in AssetAlts,
          index \in AssetIndexes, outcome \in env.stream :
          LET r == ensure_download(cache, files, slug, remote_url, alt_text, index,
                                   outcome, Len(streamCalls) + 1)
          IN  /\ r.hit => outcome = "ok"
              /\ r.streamed => Len(streamCalls) < env.faults
              /\ cache' = r.cache
              /\ files' = r.files
              /\ streamCalls' = IF r.streamed
                                THEN Append(streamCalls, <<slug, remote_url>>)
                                ELSE streamCalls
              /\ dl' = DlFrame(slug, remote_url, alt_text, index, r, files)
    /\ UNCHANGED <<HAVE_TRAF, limit, pc, articleIdx, all_results, results, language_plan,
                   planIdx, fetch, cur, docs, env>>
    /\ UNCHANGED <<call, summary>>

NextAssets == AssetCall

SpecAssets == InitAssets /\ [][NextAssets]_vars

(***************************************************************************)
(* Claims about fetch_html, checked under SpecFetch.                       *)
(***************************************************************************)
\* an answer that is no success: an exception, a status other than 200, or
\* an empty body
FailingAnswer(answer) ==
    answer.kind = "raise" \/ answer.status # 200 \/ answer.text = EmptyText

AllFailed(f) == \A i \in 1..Len(f.answers) : FailingAnswer(f.answers[i])

\* C3: against a transport that fails on every attempt, fetch_html makes
\* exactly max_retries attempts, returns an absent document with exactly
\* max_retries warnings, and never raises.
C3_RetryBound ==
    /\ pc # "crashed"
    /\ (pc = "fetch_ret" /\ AllFailed(fetch)) =>
          /\ Len(fetch.answers) = fetch.max_retries
          /\ fetch.last = "exhausted"
          /\ Len(fetch.warnings) = fetch.max_retries

\* a fetch with the default max_retries = 3 that met a bad status, an empty
\* body and an exception, and came back with nothing
C3_Witness ==
    /\ pc = "fetch_ret" /\ fetch.last = "exhausted"
    /\ fetch.max_retries = DefaultMaxRetries
    /\ Len(fetch.answers) = 3 /\ Len(fetch.warnings) = 3
    /\ \E i, j, k \in 1..3 :
          /\ fetch.answers[i].kind = "raise"
          /\ fetch.answers[j].kind = "response" /\ fetch.answers[j].status = 404
          /\ fetch.answers[k].kind = "response" /\ fetch.answers[k].status = 200

\* C9: fetch_html returns as soon as one attempt succeeds: if the first
\* successful attempt is attempt k, exactly k attempts are made, the document
\* returned is that attempt's body, and the warnings are those of the k-1
\* failed attempts before it.
C9_ReturnsOnFirstSuccess ==
    LET k == Len(fetch.answers)
    IN  /\ \A i \in 1..(k - 1) : FailingAnswer(fetch.answers[i])
        /\ (k > 0 /\ ~FailingAnswer(fetch.answers[k])) =>
              (pc = "fetch_ret" /\ fetch.last = "returned")
        /\ fetch.last = "returned" =>
              /\ k > 0 /\ k <= fetch.max_retries
              /\ ~FailingAnswer(fetch.answers[k])
              /\ fetch.html = fetch.answers[k].text
              /\ Len(fetch.warnings) = k - 1
              /\ \A i \in 1..(k - 1) :
                    /\ fetch.warnings[i].attempt = i
                    /\ (fetch.warnings[i].kind = "exc") = (fetch.answers[i].kind = "raise")

\* a fetch that succeeded at its second attempt of three
C9_Witness ==
    /\ pc = "fetch_ret" /\ fetch.last = "returned"
    /\ fetch.max_retries = DefaultMaxRetries
    /\ Len(fetch.answers) = 2 /\ Len(fetch.warnings) = 1

\* C10, as claimed: fetch_html sleeps between attempts only, so a fetch that
\* made n attempts has slept n-1 times.
C10_SleepsBetweenAttemptsOnly ==
    (pc = "fetch_ret" /\ Len(fetch.answers) > 0) => fetch.sleeps = Len(fetch.answers) - 1

\* C10, amended: fetch_html sleeps once after every failed attempt, the last
\* attempt of an exhausted fetch included, and never after a successful one: a
\* fetch that succeeds at attempt k has slept k-1 times, an exhausted fetch of
\* n attempts has slept n times.
C10_SleepsAfterEveryFailure ==
    /\ pc = "fetch_get" => fetch.sleeps = Len(fetch.answers)
    /\ pc = "fetch_sleep" => fetch.sleeps = Len(fetch.answers) - 1
    /\ pc = "fetch_ret" =>
          /\ fetch.sleeps = Len(fetch.warnings)
          /\ fetch.last = "returned" => fetch.sleeps = Len(fetch.answers) - 1
          /\ fetch.last = "exhausted" =>
                (fetch.sleeps = Len(fetch.answers) /\ fetch.sleeps = fetch.max_retries)

\* an exhausted fetch of three attempts that has slept three times
C10_Witness ==
    /\ pc = "fetch_ret" /\ fetch.last = "exhausted"
    /\ Len(fetch.answers) = 3 /\ fetch.sleeps = 3

\* C11: every warning fetch_html records for a failed attempt carries the
\* requested URL and the index of the attempt, whether the attempt failed by
\* a status other than 200, by an empty body or by a transport exception.
C11_WarningsCarryUrlAndAttempt ==
    \A i \in 1..Len(fetch.warnings) :
        /\ fetch.warnings[i].url = fetch.url
        /\ fetch.warnings[i].attempt = i

(***************************************************************************)
(* Claims about AssetManager.ensure_download.                              *)
(***************************************************************************)
\* C1: within one run, the transport is asked to download any (article
\* slug, image URL) pair at most once, whatever the outcome of the first
\* attempt.
C1_AtMostOneDownload ==
    \A i, j \in 1..Len(streamCalls) : streamCalls[i] = streamCalls[j] => i = j

\* the name a cache miss must choose on the directory `before`: the base
\* name if it is free, else the free name of the smallest counter
ChosenAsClaimed(before, d) ==
    LET safe_alt == SafeAlt(d.alt, d.index)
        ext == ExtOf(d.url)
        taken == {p.name : p \in {q \in DOMAIN before : q.slug = d.slug}}
        base == BaseName(d.index, safe_alt, ext)
    IN  /\ d.candidate.slug = d.slug
        /\ IF base \notin taken
           THEN d.candidate.name = base
           ELSE \E k \in 1..(Cardinality(taken) + 1) :
                   /\ d.candidate.name = SuffixedName(d.index, safe_alt, ext, k)
                   /\ \A j \in 1..(k - 1) : SuffixedName(d.index, safe_alt, ext, j) \in taken

\* C2: ensure_download never writes to a path that existed when the call
\* started: a cache miss writes to the base name if free, else to the first
\* free NN_alt_k.ext; every file that was there keeps its content, and two
\* downloads never end up in the same file.
C2_NeverOverwrites ==
    /\ dl.streamed =>
          /\ dl.candidate \notin DOMAIN dl.before
          /\ ChosenAsClaimed(dl.before, dl)
    /\ \A p \in DOMAIN dl.before : p \in DOMAIN files /\ files[p] = dl.before[p]
    /\ \A k1, k2 \in DOMAIN cache : k1 # k2 => cache[k1] # cache[k2]
    /\ \A k \in DOMAIN cache : cache[k] \in DOMAIN files /\ files[cache[k]].by > 0

\* a download whose base name and first suffixed name were both taken, so that
\* it was written to the name of counter 2
C2_Witness ==
    /\ dl.streamed /\ dl.outcome = "ok"
    /\ dl.candidate.name = SuffixedName(1, AltX, <<".", "p", "n", "g">>, 2)
    /\ dl.candidate \in DOMAIN files
    /\ Cardinality(DOMAIN dl.before) >= 2

(***************************************************************************)
(* Claims about scrape_article and run, checked under Spec.                *)
(***************************************************************************)
\* the loop of run is over: the list is exhausted or the limit is passed
RunOver == articleIdx > NumArticles \/ (\E n \in limit : articleIdx > n)

\* C4: if the English fetch of an article fails after all retries, the
\* article yields no result record and no file, and run goes on to the next
\* article of the list.
C4_EnglishFailureSkipsArticle ==
    /\ [][(pc = "fetch_ret" /\ fetch.caller = "en" /\ fetch.last = "exhausted") =>
             /\ all_results' = all_results
             /\ docs' = docs /\ files' = files
             /\ articleIdx' = articleIdx + 1
             /\ pc' = "run_loop"]_vars
    /\ [][(pc = "run_loop" /\ ~RunOver) =>
             /\ pc' = "fetch_get"
             /\ fetch'.url = TARGET_ARTICLES[articleIdx]
             /\ fetch'.language_code = "en"]_vars

\* the second article has reached its images while the first one, whose
\* English fetch was exhausted, left no record and no document
C4_Witness ==
    /\ articleIdx = 2 /\ pc = "images"
    /\ all_results = <<>> /\ docs = <<>>
    /\ env.faults = 0

\* C5: a failure while one variant is processed (its page cannot be fetched,
\* an image download fails, the extraction yields nothing) never aborts the
\* run: the run stops only once every article of the list has been processed.
C5_FailureNeverAbortsRun == pc \in {"done", "crashed"} => RunOver

\* a link of the page declares language `key`: its tag is `key` when
\* lower-cased, and it has a target
Declares(link, key) == Lower(Strip(link.hreflang)) = key /\ ~EmptyHref(link.href)

\* the Chinese URL the claim names for an English page: that of the first
\* key, in the order zh, zh-cn, zh-hans, that a link declares (NoUrl: none)
RECURSIVE ClaimedZhUrl(_, _, _)
ClaimedZhUrl(links, base_url, keys) ==
    IF keys = <<>> THEN NoUrl
    ELSE IF \E i \in 1..Len(links) : Declares(links[i], Head(keys))
         THEN LET i == CHOOSE i \in 1..Len(links) :
                          /\ Declares(links[i], Head(keys))
                          /\ \A j \in (i + 1)..Len(links) : ~Declares(links[j], Head(keys))
              IN  urljoin(base_url, links[i].href)
         ELSE ClaimedZhUrl(links, base_url, Tail(keys))

\* the records of the article in progress are as the claim says
GatedAsClaimed ==
    LET en == language_plan[1]
        zh == ClaimedZhUrl(en.cached_html.links, en.lang_url, ZhKeys)
    IN  IF zh = NoUrl
        THEN /\ Len(results) = 1
             /\ results[1].meta.language = "en"
        ELSE /\ Len(results) = 2
             /\ results[1].meta.language = "en"
             /\ results[2].meta.language = "zh-Hans"
             /\ results[2].meta.source_url = zh

\* the call of scrape_article in progress, on an article whose English page
\* was fetched, is at its return statement (line 467)
AtReturn == pc = "variant" /\ planIdx > Len(language_plan)
\* ... or was ended by an exception
Aborted == pc = "crashed" /\ language_plan # <<>>

\* C6: for an article whose English fetch succeeds, scrape_article gives
\* exactly [en] when the page declares none of zh, zh-cn, zh-hans, and exactly
\* [en, zh-Hans] when it declares one, the Chinese URL being that of the first
\* key present in that order.
C6_VariantGating == (AtReturn \/ Aborted) => GatedAsClaimed

\* the same, for the calls that reach their return statement
VariantGatingAtReturn == AtReturn => GatedAsClaimed

\* the record the claim names for a variant page that could not be fetched
PlaceholderAsClaimed(r, f) ==
    /\ r.meta = [title |-> "fetch failed", author |-> "", published |-> "",
                 source_url |-> f.url, language |-> f.language_code]
    /\ r.assets = <<>>
    /\ Len(r.warnings) = Len(f.warnings) + 1
    /\ SubSeq(r.warnings, 1, Len(f.warnings)) = f.warnings
    /\ r.warnings[Len(r.warnings)].kind = "unavailable"
    /\ r.warnings[Len(r.warnings)].url = f.url
    /\ r.warnings[Len(r.warnings)].lang = f.language_code

IsPlaceholder(r) == r.meta.title = "fetch failed"

\* C7: when the Chinese page cannot be fetched after all retries,
\* scrape_article still emits a record for that language: placeholder
\* metadata, no assets, the fetch warnings followed by a variant-unavailable
\* warning; and no document is written for that language in this run.
C7_FailedVariantRecord ==
    /\ [][(pc = "fetch_ret" /\ fetch.caller = "zh" /\ fetch.last = "exhausted") =>
             /\ Len(results') = Len(results) + 1
             /\ SubSeq(results', 1, Len(results)) = results
             /\ PlaceholderAsClaimed(results'[Len(results')], fetch)
             /\ docs' = docs /\ files' = files
             /\ pc' = "variant"]_vars
    /\ [](\A i \in 1..Len(results) :
             IsPlaceholder(results[i]) => results[i].markdown_path \notin DOMAIN docs)
    /\ [](\A i \in 1..Len(all_results) :
             IsPlaceholder(all_results[i]) => all_results[i].markdown_path \notin DOMAIN docs)
    /\ [][pc = "variant" /\ planIdx > Len(language_plan) =>
             all_results' = all_results \o results]_vars

\* run holds the record of a Chinese page that three attempts could not fetch
C7_Witness ==
    \E i \in 1..Len(all_results) :
       /\ IsPlaceholder(all_results[i])
       /\ all_results[i].meta.language = "zh-Hans"
       /\ Len(all_results[i].warnings) = DefaultMaxRetries + 1
       /\ i > 1 /\ all_results[i - 1].meta.language = "en"
       /\ all_results[i - 1].markdown_path \in DOMAIN docs

\* C8: an image whose download failed while a variant is processed has a
\* warning in that variant's record, its URL is no key of the variant's
\* replacement map, and every reference to it in the text stays remote.
C8_FailedImageStaysRemote ==
    pc = "images" =>
       \A i \in 1..Len(cur.warnings) :
          cur.warnings[i].kind = "asset" =>
             /\ cur.warnings[i].url \notin DOMAIN cur.replacement_map
             /\ LET body == rewrite_markdown_images(cur.markdown, cur.replacement_map)
                IN  \A j \in 1..Len(cur.markdown.refs) :
                       cur.markdown.refs[j].url = cur.warnings[i].url =>
                          body.refs[j] = cur.markdown.refs[j]

(***************************************************************************)
(* Claims about the content extraction of a variant.                       *)
(***************************************************************************)
\* the variant in progress had its page at hand, and its processing was
\* ended by an exception before a document was written for it
ExtractionAbandoned ==
    /\ pc = "crashed"
    /\ cur.lang_code # ""
    /\ DocPath(Slug, cur.lang_code) \notin DOMAIN docs

\* C12: when the primary extraction yields nothing for a page, html_to_markdown
\* returns the text of the fallback strategy (possibly empty) instead of
\* failing, with trafilatura present or absent, so the variant's document is
\* written with the metadata extracted from the page.
C12_FallbackInsteadOfFailure ==
    /\ ~ExtractionAbandoned
    /\ \A i \in 1..Len(results) :
          ~IsPlaceholder(results[i]) =>
              /\ results[i].markdown_path \in DOMAIN docs
              /\ docs[results[i].markdown_path].meta = results[i].meta

(***************************************************************************)
(* The pure functions on their own.  While one of them is being called the *)
(* pipeline stands still.                                                  *)
(***************************************************************************)
Idle ==
    /\ HAVE_TRAF = FALSE
    /\ limit = {}
    /\ pc = "call"
    /\ articleIdx = 1
    /\ all_results = <<>>
    /\ results = <<>>
    /\ language_plan = <<>>
    /\ planIdx = 0
    /\ fetch = NoFetch
    /\ cur = NoCur
    /\ dl = NoDl
    /\ cache = <<>>
    /\ files = Disk({})
    /\ docs = <<>>
    /\ streamCalls = <<>>
    /\ env = Environment(0, 0, 0, {}, {}, {})
    /\ summary = <<>>

StaysIdle ==
    UNCHANGED <<HAVE_TRAF, limit, pc, articleIdx, all_results, results, language_plan,
                planIdx, fetch, cur, dl, cache, files, docs, streamCalls, env, summary>>

(***************************************************************************)
(* rewrite_markdown_images (lines 272-284) over MD_IMAGE_PATTERN (line 76) *)
(* on the characters of a text.                                            *)
(***************************************************************************)
\* segments of a text at most
MaxSegments == 3

\* the least index from `from` on at which `text` holds `ch`; 0: none
RECURSIVE IndexFrom(_, _, _)
IndexFrom(text, from, ch) ==
    IF from > Len(text) THEN 0
    ELSE IF text[from] = ch THEN from
    ELSE IndexFrom(text, from + 1, ch)

NoMatch == [found |-> FALSE, alt |-> <<>>, src |-> <<>>, end |-> 0]

\* MD_IMAGE_PATTERN matched at index i of the text:
\*   !\[(?P<alt>[^\]]*)\]\((?P<src>[^)]+)\)
\* alt runs to the first "]", which "(" must follow; src runs to the first
\* ")" and is not empty
MD_IMAGE_PATTERN(text, i) ==
    IF ~(i + 1 <= Len(text) /\ text[i] = "!" /\ text[i + 1] = "[") THEN NoMatch
    ELSE LET j == IndexFrom(text, i + 2, "]")
         IN  IF j = 0 \/ j + 1 > Len(text) \/ text[j + 1] # "(" THEN NoMatch
             ELSE LET k == IndexFrom(text, j + 2, ")")
                  IN  IF k = 0 \/ k = j + 2 THEN NoMatch
                      ELSE [found |-> TRUE, alt |-> SubSeq(text, i + 2, j - 1),
                            src |-> SubSeq(text, j + 2, k - 1), end |-> k]

\* a variant of ImageMarkdown that loses the alt text
ImageMarkdown_NoAlt(alt, new_src) == <<"!", "[", "]", "(">> \o new_src \o <<")">>

\* line 282: f"![{alt}]({new_src})"
ImageMarkdown(alt, new_src) == <<"!", "[">> \o alt \o <<"]", "(">> \o new_src \o <<")">>

\* lines 278-282: _replace
Replace(match, replacement_map) ==
    ImageMarkdown(match.alt,
                  IF match.src \in DOMAIN replacement_map
                  THEN replacement_map[match.src] ELSE match.src)

\* line 284: MD_IMAGE_PATTERN.sub(_replace, markdown_text), from index i on
RECURSIVE SubFrom(_, _, _)
SubFrom(text, i, replacement_map) ==
    IF i > Len(text) THEN <<>>
    ELSE LET match == MD_IMAGE_PATTERN(text, i)
         IN  IF match.found
             THEN Replace(match, replacement_map) \o SubFrom(text, match.end + 1, replacement_map)
             ELSE <<text[i]>> \o SubFrom(text, i + 1, replacement_map)

\* rewrite_markdown_images on the characters of markdown_text
rewrite_markdown_text(markdown_text, replacement_map) == SubFrom(markdown_text, 1, replacement_map)

\* the texts the function is given: a run of segments, each a character
\* that starts no image reference or an image reference ![alt](url)
PlainChars == {"a", "[", "]", "(", ")"}
RefAlts == {<<>>, <<"x">>, <<"!", "[">>}
RefUrls == {<<"u">>, <<"v">>, <<>>}
LocalPaths == {<<"L">>, <<"M", ")">>}
Plain(ch) == [ref |-> FALSE, ch |-> ch, alt |-> <<>>, url |-> <<>>]
Ref(alt, url) == [ref |-> TRUE, ch |-> "", alt |-> alt, url |-> url]
Segments == {Plain(ch) : ch \in PlainChars} \cup {Ref(a, u) : a \in RefAlts, u \in RefUrls}

ReplacementMaps ==
    UNION {[keys -> LocalPaths] : keys \in SUBSET (RefUrls \ {<<>>})}

SegmentText(seg) ==
    IF seg.ref THEN <<"!", "[">> \o seg.alt \o <<"]", "(">> \o seg.url \o <<")">>
    ELSE <<seg.ch>>

RECURSIVE Flatten(_)
Flatten(segs) == IF segs = <<>> THEN <<>> ELSE SegmentText(Head(segs)) \o Flatten(Tail(segs))

RewriteCall(segs, replacement_map) ==
    [fn |-> "rewrite_markdown_images", segs |-> segs, markdown_text |-> Flatten(segs),
     replacement_map |-> replacement_map, returned |-> FALSE, result |-> <<>>]

InitRewrite ==
    /\ Idle
    /\ \E segs \in SeqsUpTo(Segments, MaxSegments), m \in ReplacementMaps :
          call = RewriteCall(segs, m)

RewriteReturns ==
    /\ call.fn = "rewrite_markdown_images" /\ ~call.returned
    /\ call' = [call EXCEPT !.returned = TRUE,
                            !.result = rewrite_markdown_text(call.markdown_text,
                                                             call.replacement_map)]
    /\ StaysIdle

NextRewrite == RewriteReturns

SpecRewrite == InitRewrite /\ [][NextRewrite]_vars

\* the segment as the claim has it after the rewriting
Rewritten(seg, replacement_map) ==
    IF seg.ref /\ seg.url \in DOMAIN replacement_map
    THEN Ref(seg.alt, replacement_map[seg.url])
    ELSE seg

\* C13: rewrite_markdown_images replaces the URL of every image reference
\* ![alt](url) whose URL is a key of the mapping by the mapped path, keeps
\* the alt text and leaves every other character as it is; on a text none of
\* whose image URLs is a key it returns the text unchanged.
C13_RewritesMappedReferencesOnly ==
    call.returned =>
        /\ call.result =
              Flatten([i \in 1..Len(call.segs) |->
                          Rewritten(call.segs[i], call.replacement_map)])
        /\ (\A i \in 1..Len(call.segs) :
               ~(call.segs[i].ref /\ call.segs[i].url \in DOMAIN call.replacement_map))
              => call.result = call.markdown_text

\* a text with a reference whose URL is a key between two whose URL is not,
\* rewritten
C13_Witness ==
    /\ call.returned
    /\ Len(call.segs) = 3
    /\ call.segs[1] = Ref(<<"x">>, <<"v">>)
    /\ call.segs[2] = Ref(<<"!", "[">>, <<"u">>)
    /\ call.segs[3] = Plain(")")
    /\ DOMAIN call.replacement_map = {<<"u">>}
    /\ call.result # call.markdown_text

(***************************************************************************)
(* Claims about the images of a variant, checked under Spec.               *)
(***************************************************************************)
\* the two-digit index prefix NN of an asset file
IndexPrefix(path) == SubSeq(path.name, 1, 2)

\* the last call of ensure_download was made for an image of the variant in
\* progress and gave a local path
ImageRecorded == pc = "images" /\ cur.imgIdx > 1 /\ dl.path # NoPath

\* C14, as claimed: the asset file recorded for the i-th image of a variant
\* has the index prefix of i.
C14_PrefixIsPositionInVariant ==
    ImageRecorded => IndexPrefix(dl.path) = TwoDigits(cur.imgIdx - 1)

\* C14, amended: the images of a variant are handed to ensure_download in
\* their order, the i-th with index i; the file downloaded for the i-th image
\* has the index prefix of i, while an image whose URL is in the slug's cache
\* is recorded with the file of its first download, whatever its position.
C14_PrefixIsPositionAtDownload ==
    (pc = "images" /\ cur.imgIdx > 1) =>
        /\ dl.index = cur.imgIdx - 1
        /\ dl.url = cur.images[dl.index].url
        /\ dl.alt = cur.images[dl.index].alt
        /\ (dl.streamed /\ dl.path # NoPath) =>
              /\ IndexPrefix(dl.path) = TwoDigits(dl.index)
              /\ dl.path \notin DOMAIN dl.before
        /\ dl.hit =>
              /\ dl.path # NoPath
              /\ dl.path \in DOMAIN dl.before
              /\ cache[<<dl.slug, dl.url>>] = dl.path

\* the second image of a variant was downloaded and stored under prefix 02
C14_Witness ==
    /\ ImageRecorded
    /\ dl.streamed /\ dl.index = 2
    /\ IndexPrefix(dl.path) = <<"0", "2">>

(***************************************************************************)
(* extract_article_meta (lines 170-213) over the JSON-LD script blocks of  *)
(* a page.  The text of the author field is modelled as the sequence of    *)
(* the names that ", " joins.                                              *)
(***************************************************************************)
\* script blocks of a page at most
MaxBlocks == 2

\* the value of the key "author" of an item: absent, an object (with or
\* without the key "name"), or a list whose entries are objects; the name ""
\* in a list stands for an entry without a name
NoAuthor == [shape |-> "none", has_name |-> FALSE, names |-> <<>>]
AuthorObject(name) == [shape |-> "dict", has_name |-> TRUE, names |-> <<name>>]
AuthorObjectNoName == [shape |-> "dict", has_name |-> FALSE, names |-> <<>>]
AuthorList(names) == [shape |-> "list", has_name |-> FALSE, names |-> names]

\* an object of a JSON-LD block
Item(type, headline, datePublished, author) ==
    [type |-> type, headline |-> headline, datePublished |-> datePublished,
     author |-> author]

\* a script block: text that is no JSON, a JSON value that is neither list
\* nor object, one object, or a list (`items` are its entries that are objects)
Block(json, items) == [json |-> json, items |-> items]

\* filter(None, names)
RECURSIVE Named(_)
Named(names) ==
    IF names = <<>> THEN <<>>
    ELSE IF Head(names) = "" THEN Named(Tail(names))
    ELSE <<Head(names)>> \o Named(Tail(names))

\* lines 192-197
AuthorOf(author_data, author) ==
    IF author_data.shape = "list"
    THEN IF Named(author_data.names) # <<>> THEN Named(author_data.names) ELSE author
    ELSE IF author_data.shape = "dict"
    THEN IF author_data.has_name THEN Named(author_data.names) ELSE author
    ELSE author

\* a variant of TitleOf in which a title already found is kept
TitleOf_FirstWins(item, title) == IF title # "" THEN title ELSE item.headline

\* line 190: item.get("headline") or title
TitleOf(item, title) == IF item.headline # "" THEN item.headline ELSE title

\* line 191
PublishedOf(item, published) ==
    IF item.datePublished # "" THEN item.datePublished ELSE published

ArticleTypes == {"Article", "NewsArticle"}

\* lines 187-197: the loop over the candidates of one block
RECURSIVE ScanItems(_, _)
ScanItems(items, found) ==
    IF items = <<>> THEN found
    ELSE LET item == Head(items)
         IN  IF item.type \notin ArticleTypes
             THEN ScanItems(Tail(items), found)
             ELSE ScanItems(Tail(items),
                            [title |-> TitleOf(item, found.title),
                             published |-> PublishedOf(item, found.published),
                             author |-> AuthorOf(item.author, found.author)])

\* lines 176-197: the loop over the script blocks
RECURSIVE ScanBlocks(_, _)
ScanBlocks(blocks, found) ==
    IF blocks = <<>> THEN found
    ELSE IF Head(blocks).json \in {"dict", "list"}
         THEN ScanBlocks(Tail(blocks), ScanItems(Head(blocks).items, found))
         ELSE ScanBlocks(Tail(blocks), found)

\* a page as extract_article_meta reads it: its script blocks, and the
\* stripped texts of its h1, byline and publish-date elements
Tree(blocks, h1, byline, publish_date) ==
    [blocks |-> blocks, h1 |-> h1, byline |-> byline, publish_date |-> publish_date]

\* lines 173-213
article_meta_of(tree, language_code, source_url) ==
    LET found == ScanBlocks(tree.blocks, [title |-> "", published |-> "", author |-> <<>>])
        title == IF found.title # "" THEN found.title ELSE tree.h1
        author == IF found.author # <<>> THEN found.author ELSE tree.byline
        published == IF found.published # "" THEN found.published ELSE tree.publish_date
    IN  ArticleMeta(IF title # "" THEN title ELSE "untitled article",
                    IF author # <<>> THEN author ELSE <<"unknown author">>,
                    published, source_url, language_code)

\* the pages the function is given
Authorships ==
    { <<"", NoAuthor>>, <<"D1", AuthorObject("Ann")>>, <<"D2", AuthorObject("")>>,
      <<"", AuthorObjectNoName>>, <<"", AuthorList(<<"", "Bob">>)>>,
      <<"D1", AuthorList(<<"Ann", "Bob">>)>>, <<"D2", AuthorList(<<"">>)>> }
Items ==
    {Item(type, headline, a[1], a[2]) :
        type \in ArticleTypes \cup {"WebPage"}, headline \in {"", "T1", "T2"},
        a \in Authorships}
Blocks ==
    {Block("invalid", <<>>), Block("other", <<>>)}
        \cup {Block("dict", <<i>>) : i \in Items}
        \cup {Block("list", <<Item("Article", "T1", "D1", AuthorObject("Ann")),
                              Item("NewsArticle", "T2", "", AuthorList(<<"Bob">>))>>),
              Block("list", <<>>)}

MetaCall(blocks) ==
    [fn |-> "extract_article_meta", tree |-> Tree(blocks, "H", <<>>, ""),
     returned |-> FALSE, result |-> PlaceholderMeta(NoUrl, "")]

InitMeta ==
    /\ Idle
    /\ \E blocks \in SeqsUpTo(Blocks, MaxBlocks) : call = MetaCall(blocks)

MetaReturns ==
    /\ call.fn = "extract_article_meta" /\ ~call.returned
    /\ call' = [call EXCEPT !.returned = TRUE,
                            !.result = article_meta_of(call.tree, "en", TARGET_ARTICLES[1])]
    /\ StaysIdle

NextMeta == MetaReturns

SpecMeta == InitMeta /\ [][NextMeta]_vars

\* the objects of article type of a page, in document order
RECURSIVE ArticleItems(_)
ArticleItems(blocks) ==
    IF blocks = <<>> THEN <<>>
    ELSE SelectSeq(Head(blocks).items, LAMBDA i : i.type \in ArticleTypes)
            \o ArticleItems(Tail(blocks))

\* an object carries the title (the date) when its headline (its
\* datePublished) is not empty, and the author when its author is an object
\* with a name or a list with at least one named entry
CarriesTitle(item) == item.headline # ""
CarriesPublished(item) == item.datePublished # ""
CarriesAuthor(item) ==
    \/ item.author.shape = "dict" /\ item.author.has_name
    \/ item.author.shape = "list" /\ \E n \in 1..Len(item.author.names) : item.author.names[n] # ""

\* the last index of items at which Carries holds; 0: none
Last(items, Carries(_)) ==
    IF \E i \in 1..Len(items) : Carries(items[i])
    THEN CHOOSE i \in 1..Len(items) :
            Carries(items[i]) /\ \A j \in (i + 1)..Len(items) : ~Carries(items[j])
    ELSE 0

Notice == <<"_note: non-profit fan work under the Wizards fan content policy_">>

\* lines 444-456: the list front_matter, each element a line
front_matter(meta) ==
    << <<"---">>,
       <<"title: \"", meta.title, "\"">>,
       <<"author: ", meta.author>>,
       <<"published: ", meta.published>>,
       <<"source: ", meta.source_url>>,
       <<"language: ", meta.language>>,
       <<"tags: [Strixhaven, Magic Story]">>,
       <<"---">>,
       <<>>,
       Notice,
       <<>> >>

\* "\n".join(lines)
RECURSIVE JoinLines(_)
JoinLines(lines) ==
    IF lines = <<>> THEN <<>>
    ELSE IF Len(lines) = 1 THEN Head(lines)
    ELSE Head(lines) \o <<"\n">> \o JoinLines(Tail(lines))

\* line 457: "\n".join(front_matter) + markdown
document_text(meta, markdown) == JoinLines(front_matter(meta)) \o markdown

\* the texts html_to_markdown hands over: text that starts at once, as
\* trafilatura gives it, or after blank lines, as markdownify gives the
\* text of a block element, or no text at all
Markdowns ==
    { <<>>, <<"Once">>, <<"Once", "\n", "\n", "![x](a.png)">>,
      <<"\n", "\n", "Once", "\n">>, <<"# Title", "\n", "\n", "Once", "\n">> }

Metas ==
    {ArticleMeta(title, author, published, "https://magic.wizards.com/en/s1", language) :
        title \in {"Class Session", "untitled article", "T2"},
        author \in {"Ann", "Ann, Bob", "unknown author"},
        published \in {"", "2021-03-25"},
        language \in {"en", "zh-Hans"}}

WriteCall(meta, markdown) ==
    [fn |-> "write_text", meta |-> meta, markdown |-> markdown, returned |-> FALSE,
     result |-> <<>>]

InitWrite ==
    /\ Idle
    /\ \E meta \in Metas, markdown \in Markdowns : call = WriteCall(meta, markdown)

WriteReturns ==
    /\ call.fn = "write_text" /\ ~call.returned
    /\ call' = [call EXCEPT !.returned = TRUE,
                            !.result = document_text(call.meta, call.markdown)]
    /\ StaysIdle

NextWrite == WriteReturns

SpecWrite == InitWrite /\ [][NextWrite]_vars

\* str.split("\n"): the lines of a text
RECURSIVE SplitLines(_, _)
SplitLines(text, line) ==
    IF text = <<>> THEN <<line>>
    ELSE IF Head(text) = "\n" THEN <<line>> \o SplitLines(Tail(text), <<>>)
    ELSE SplitLines(Tail(text), Append(line, Head(text)))

\* C16: a written document consists of the header block (opening delimiter,
\* title, author, published, source, language, tag list, closing delimiter),
\* one blank line, the attribution notice, one blank line and then the body:
\* an empty line separates the first line of the body from the notice.
C16_BlankLineBeforeBody ==
    (call.returned /\ call.markdown # <<>>) =>
        LET lines == SplitLines(call.result, <<>>)
            header == front_matter(call.meta)
        IN  /\ Len(lines) >= 12
            /\ \A i \in 1..8 : lines[i] = header[i]
            /\ lines[9] = <<>>
            /\ lines[10] = Notice
            /\ lines[11] = <<>>

(***************************************************************************)
(* The fallback of html_to_markdown (lines 246-252): the elements whose    *)
(* markup is handed to markdownify.  An element is known by its path, the  *)
(* child indexes from the body down, and stands for the text of its own.   *)
(***************************************************************************)
\* children of the body at most
MaxChildren == 2

Element(tag, flagged, kids) == [tag |-> tag, flagged |-> flagged, kids |-> kids]

\* the elements of a forest in document order, each with its path
RECURSIVE ElementsOf(_, _), ForestElements(_, _, _)
ElementsOf(element, path) ==
    <<[path |-> path, tag |-> element.tag, flagged |-> element.flagged]>>
        \o ForestElements(element.kids, path, 1)
ForestElements(elements, prefix, i) ==
    IF i > Len(elements) THEN <<>>
    ELSE ElementsOf(elements[i], Append(prefix, i)) \o ForestElements(elements, prefix, i + 1)

\* line 248: //article | //main | //*[@data-component="Article"], the union
\* of the three node sets, in document order
Selected(e) == e.tag = "article" \/ e.tag = "main" \/ e.flagged

IsPrefix(p, q) == Len(p) <= Len(q) /\ SubSeq(q, 1, Len(p)) = p

\* lxml_html.tostring(item): the element with all that is inside it
Serialized(all, item) == SelectSeq(all, LAMBDA e : IsPrefix(item.path, e.path))

RECURSIVE Concat(_)
Concat(seqs) == IF seqs = <<>> THEN <<>> ELSE Head(seqs) \o Concat(Tail(seqs))

\* lines 247-251: the elements whose markup makes up html_fragment, in the
\* order it holds them; the whole document when nothing is selected
html_fragment(body) ==
    LET tree == ElementsOf(Element("html", FALSE, body), <<>>)
        node == SelectSeq(tree, Selected)
        items == IF node # <<>> THEN node ELSE <<tree[1]>>
    IN  Concat([i \in 1..Len(items) |-> Serialized(tree, items[i])])

\* the pages the fallback is given: up to MaxChildren elements in the body,
\* each with at most one element inside
Leaves ==
    {Element("article", FALSE, <<>>), Element("main", FALSE, <<>>),
     Element("div", TRUE, <<>>), Element("div", FALSE, <<>>)}
Containers == {Element(l.tag, l.flagged, kids) : l \in Leaves, kids \in {<<>>} \cup {<<k>> : k \in Leaves}}

FallbackCall(body) ==
    [fn |-> "html_to_markdown", body |-> body, returned |-> FALSE, result |-> <<>>]

InitFallback ==
    /\ Idle
    /\ \E body \in SeqsUpTo(Containers, MaxChildren) : call = FallbackCall(body)

FallbackReturns ==
    /\ call.fn = "html_to_markdown" /\ ~call.returned
    /\ call' = [call EXCEPT !.returned = TRUE, !.result = html_fragment(call.body)]
    /\ StaysIdle

NextFallback == FallbackReturns

SpecFallback == InitFallback /\ [][NextFallback]_vars

\* the kind of container the claim has the fallback take: the first present
\* of <article>, <main>, flagged element
ChosenKind(tree) ==
    IF \E i \in 1..Len(tree) : tree[i].tag = "article" THEN "article"
    ELSE IF \E i \in 1..Len(tree) : tree[i].tag = "main" THEN "main"
    ELSE IF \E i \in 1..Len(tree) : tree[i].flagged THEN "flagged"
    ELSE "none"

OfKind(e, kind) ==
    CASE kind = "article" -> e.tag = "article"
      [] kind = "main" -> e.tag = "main"
      [] kind = "flagged" -> e.flagged
      [] OTHER -> TRUE

\* C17: the fallback takes its input from the first kind of container present
\* in the order <article>, <main>, flagged element: what it serializes lies in
\* a container of that kind, and no region of the page is emitted twice.
C17_FirstContainerKindOnly ==
    call.returned =>
        LET tree == ElementsOf(Element("html", FALSE, call.body), <<>>)
            kind == ChosenKind(tree)
        IN  /\ \A i \in 1..Len(call.result) :
                  \E j \in 1..Len(tree) :
                      /\ OfKind(tree[j], kind)
                      /\ IsPrefix(tree[j].path, call.result[i].path)
            /\ \A i, j \in 1..Len(call.result) :
                  call.result[i].path = call.result[j].path => i = j

(***************************************************************************)
(* main (lines 525-543): run, then the summary, over an output directory   *)
(* that an earlier run may have written to.                                *)
(***************************************************************************)
\* item.markdown_path.is_file()
is_file(markdown_path) == markdown_path \in DOMAIN docs

\* lines 533-540: the line printed for one record
SummaryLine(item) ==
    [language |-> item.meta.language, title |-> item.meta.title,
     status |-> IF is_file(item.markdown_path) THEN "OK" ELSE "FAIL",
     shown_path |-> is_file(item.markdown_path), warnings |-> item.warnings]

\* lines 530-543: the summary main prints once run has returned
Summary ==
    /\ pc = "done"
    /\ summary' = [i \in 1..Len(all_results) |-> SummaryLine(all_results[i])]
    /\ pc' = "exit"
    /\ UNCHANGED <<HAVE_TRAF, limit, articleIdx, all_results, results, language_plan,
                   planIdx, fetch, cur, dl, cache, files, docs, streamCalls, env, call>>

\* a document an earlier run wrote
EarlierDocument(source_url, language) ==
    [meta |-> ArticleMeta("Class Session", "", "2021-03-25", source_url, language),
     body |-> EmptyString, run |-> 0]

\* the output directory main may start on: empty, or with the Chinese
\* document of the first article
EarlierOutputs ==
    LET zh == urljoin(TARGET_ARTICLES[1], CnHref)
    IN  {<<>>, DocPath(derive_slug(TARGET_ARTICLES[1]), "zh-Hans") :> EarlierDocument(zh, "zh-Hans")}

InitMain ==
    /\ HAVE_TRAF \in BOOLEAN
    /\ limit = {1}
    /\ pc = "run_loop"
    /\ articleIdx = 1
    /\ all_results = <<>>
    /\ results = <<>>
    /\ language_plan = <<>>
    /\ planIdx = 0
    /\ fetch = NoFetch
    /\ cur = NoCur
    /\ dl = NoDl
    /\ cache = <<>>
    /\ files = Disk({})
    /\ docs \in EarlierOutputs
    /\ streamCalls = <<>>
    /\ env = WholeRunSite
    /\ call = NoCall
    /\ summary = <<>>

NextMain ==
    \/ Next
    \/ Summary

SpecMain == InitMain /\ [][NextMain]_vars

\* C18: a record emitted for a variant whose page could not be fetched has
\* no usable content path: the summary reports it with status FAIL in every
\* run, also when the output directory holds a document of that article and
\* language from an earlier run.
C18_FailedVariantReportedFail ==
    pc = "exit" =>
        \A i \in 1..Len(all_results) :
            IsPlaceholder(all_results[i]) => summary[i].status = "FAIL"

(***************************************************************************)
(* Claims about what a call of ensure_download leaves behind.              *)
(***************************************************************************)
\* C19: a call of ensure_download that returns an absent path leaves the
\* asset directory as it was, whether the transfer failed by a bad status
\* before the first byte or by a transport error in its middle: no new or
\* partial file; and it leaves the cache as it was.
C19_FailedDownloadLeavesNothing ==
    (dl.outcome # "none" /\ dl.path = NoPath) =>
        /\ files = dl.before
        /\ <<dl.slug, dl.url>> \notin DOMAIN cache

\* the number of entries of a sequence that equal x
Count(seq, x) == Cardinality({i \in 1..Len(seq) : seq[i] = x})

\* C20, as claimed: the assets of a variant hold each local path at most once.
C20_AssetsWithoutDuplicates ==
    /\ \A p \in {cur.assets[i] : i \in 1..Len(cur.assets)} : Count(cur.assets, p) = 1
    /\ \A r \in 1..Len(results) :
          \A i, j \in 1..Len(results[r].assets) :
              results[r].assets[i] = results[r].assets[j] => i = j

\* the images of the variant in progress that ensure_download has been asked
\* for and whose URL the cache maps to path p
ResolvedTo(p) ==
    {i \in 1..(cur.imgIdx - 1) :
        /\ <<Slug, cur.images[i].url>> \in DOMAIN cache
        /\ cache[<<Slug, cur.images[i].url>>] = p}

\* C20, amended: the assets of a variant hold one entry for every image
\* reference that ensure_download resolved, by a download or from the
\* cache: each entry is the file of an image URL of the variant, a path occurs
\* at most as often as its URL is referenced, and the references of two
\* different URLs never give the same path.
C20_AssetsOnePerResolvedReference ==
    pc = "images" =>
        /\ Len(cur.assets) <= cur.imgIdx - 1
        /\ \A k \in 1..Len(cur.assets) :
              /\ cur.assets[k] # NoPath
              /\ ResolvedTo(cur.assets[k]) # {}
              /\ Count(cur.assets, cur.assets[k]) <= Cardinality(ResolvedTo(cur.assets[k]))
              /\ \A i, j \in ResolvedTo(cur.assets[k]) : cur.images[i].url = cur.images[j].url
        /\ \A u \in DOMAIN cur.replacement_map :
              Count(cur.assets, cur.replacement_map[u]) >= 1

\* a variant that shows one image twice: the second reference came from the
\* cache, and the file is listed twice
C20_Witness ==
    /\ pc = "images"
    /\ cur.imgIdx = 3
    /\ cur.images[1].url = cur.images[2].url
    /\ dl.hit
    /\ Len(cur.assets) = 2
    /\ cur.assets[1] = cur.assets[2]

(***************************************************************************)
(* run from its call to its end, over an asset directory that earlier runs *)
(* may have filled.  The program is one sequential thread and each of its  *)
(* blocking calls (client.get and client.stream with timeout=30,           *)
(* time.sleep) comes back, so a step that can be taken is taken.           *)
(***************************************************************************)
\* the site of these runs: it fails as often as exhausts one fetch, serves one
\* image, and the English page links to a Chinese one
RunSite ==
    Environment(DefaultMaxRetries, 1, 1, {Response(404, EmptyText)}, {"ok", "status"},
                {<<Link(<<"Z", "H", "-", "C", "N">>, CnHref)>>})

InitRun ==
    /\ HAVE_TRAF \in BOOLEAN
    /\ limit \in {{}, {1}}
    /\ pc = "run_loop"
    /\ articleIdx = 1
    /\ all_results = <<>>
    /\ results = <<>>
    /\ language_plan = <<>>
    /\ planIdx = 0
    /\ fetch = NoFetch
    /\ cur = NoCur
    /\ dl = NoDl
    /\ cache = <<>>
    /\ files \in {Disk({}), Disk(PriorFiles)}
    /\ docs = <<>>
    /\ streamCalls = <<>>
    /\ env = RunSite
    /\ call = NoCall
    /\ summary = <<>>

SpecRun == InitRun /\ [][Next]_vars /\ WF_vars(Next)

\* run has ended: it returned, or an exception ended it
Terminated == pc \in {"done", "crashed"}

\* fetch_html is running
InFetch == pc \in {"fetch_get", "fetch_sleep", "fetch_ret"}

\* the resources the run has used so far are within the claimed bounds: the
\* attempts of a fetch_html call; one call for the English page, made before
\* anything else of the article, and one for the Chinese page, made at the
\* second entry of a plan of two; the client.stream calls against the img
\* elements served; a written file name that was free; the articles started
WithinBounds ==
    /\ fetch.caller # "none" =>
          /\ fetch.max_retries = DefaultMaxRetries
          /\ Len(fetch.answers) <= fetch.max_retries
          /\ fetch.attempt <= fetch.max_retries
    /\ Len(language_plan) <= 2
    /\ \A i \in 1..Len(language_plan) : (i = 1) = language_plan[i].cached
    /\ planIdx <= Len(language_plan) + 1
    /\ (InFetch /\ fetch.caller = "en") => (language_plan = <<>> /\ results = <<>>)
    /\ (InFetch /\ fetch.caller = "zh") => (planIdx = 2 /\ Len(results) = 1)
    /\ Len(streamCalls) <= RunSite.images - env.images
    /\ dl.streamed => dl.candidate \notin DOMAIN dl.before
    /\ articleIdx <= NumArticles + 1

\* C21: run always terminates, whatever the transport does and whatever the
\* asset directory holds at the start: an article causes at most max_retries
\* attempts on its English page and at most max_retries on its Chinese page,
\* an image at most one download attempt, and the search for a file name ends
\* at a free name.
C21_RunTerminates == []WithinBounds /\ <>Terminated

\* a run over the whole list that returned after it exhausted the attempts on
\* a Chinese page and stored an image beside the files of an earlier run
C21_Witness ==
    /\ pc = "done"
    /\ limit = {}
    /\ articleIdx = NumArticles + 1
    /\ env.faults = 0
    /\ Len(streamCalls) = 1
    /\ PriorFiles \subseteq DOMAIN files
    /\ \E k \in DOMAIN cache : cache[k] \notin PriorFiles /\ cache[k] \in DOMAIN files
    /\ \E i \in 1..Len(all_results) :
          /\ all_results[i].meta.title = "fetch failed"
          /\ Len(all_results[i].warnings) = DefaultMaxRetries + 1
====
